---- MODULE Spec2Model ----
(***************************************************************************)
(* Model of the clinical-trials scraper (src/scraper.py):                  *)
(*   ClinicalTrialsDB      the PostgreSQL table and insert_trial's upsert  *)
(*   ClinicalTrialsClient  search_studies with its tenacity retry policy   *)
(*   scrape_trials         the page loop                                   *)
(* Strings are sequences of one-character strings, so that position(),     *)
(* concatenation and quoting are computed as the code computes them.       *)
(***************************************************************************)
EXTENDS Integers, Sequences, FiniteSets, TLC

\* ---------------------------------------------------------------- bounds
MaxPages == 2        \* pages the server serves before it stops handing out tokens
MaxPageLen == 2      \* studies per page (pageSize is 100 in the code)
MaxStudies == 3      \* studies the registry holds for one query
MaxTrialsArg == 2    \* largest max_trials a run is started with
MaxDirectCalls == 3  \* insert_trial calls made directly on the repository

\* ---------------------------------------------------------------- values
\* Python None and SQL NULL; distinct from every string, the empty one included
None == <<"None">>

\* Truth value of an Optional[str]: None and '' are falsy
Truthy(x) == x # None /\ x # <<>>

\* Truth value of an Optional[int]: None is falsy, 0 is falsy.  None is
\* represented as 0, max_trials being read only through this test.
TruthyInt(n) == n # 0

StrCondition == <<"c", "o", "n", "d", "i", "t", "i", "o", "n", ":">>
StrIntervention == <<"i", "n", "t", "e", "r", "v", "e", "n", "t", "i", "o", "n", ":">>
StrOtherTerms == <<"o", "t", "h", "e", "r", "_", "t", "e", "r", "m", "s", ":">>
StrHasResults == <<"h", "a", "s", "_", "r", "e", "s", "u", "l", "t", "s", ":", "t", "r", "u", "e">>
StrSep == <<";", " ">>
StrAndHasResults == <<" ", "A", "N", "D", " ", "A", "R", "E", "A", "[", "H", "a", "s", "R", "e", "s", "u", "l", "t", "s", "]", " ", "t", "r", "u", "e">>
StrAreaHasResults == <<"A", "R", "E", "A", "[", "H", "a", "s", "R", "e", "s", "u", "l", "t", "s", "]", " ", "t", "r", "u", "e">>

\* "; ".join(list)
RECURSIVE Join(_)
Join(list) ==
    IF Len(list) = 0 THEN <<>>
    ELSE IF Len(list) = 1 THEN list[1]
    ELSE list[1] \o StrSep \o Join(Tail(list))

\* f'"{s}"'
Quote(s) == <<"\"">> \o s \o <<"\"">>

\* SQL position(sub in s): 1-based index of the first occurrence, 0 if none
Position(sub, s) ==
    LET hits == {i \in 1..(Len(s) - Len(sub) + 1) : SubSeq(s, i, i + Len(sub) - 1) = sub}
    IN IF hits = {} THEN 0 ELSE CHOOSE i \in hits : \A j \in hits : i <= j

\* ---------------------------------------------------------------- study documents
\* A study document of the registry, reduced to the paths the code and the
\* table's generated columns read:
\*   protocolSection  "dict", or "null" (study.get(...) returns None and the
\*                    next .get raises AttributeError)
\*   nctId            protocolSection.identificationModule.nctId, None when absent
\*   hasResults       text of data->>'hasResults': "true", "false", "absent",
\*                    or "maybe" (a JSON string the ::boolean cast rejects)
\*   overallStatus    protocolSection.statusModule.overallStatus
\*   phases           protocolSection.designModule.phases
N1 == <<"N", "1">>
N2 == <<"N", "2">>
N3 == <<"N", "3">>

DocA == [protocolSection |-> "dict", nctId |-> N1, hasResults |-> "true",
         overallStatus |-> "COMPLETED", phases |-> <<"PHASE1">>]
DocA2 == [protocolSection |-> "dict", nctId |-> N1, hasResults |-> "false",
          overallStatus |-> "RECRUITING", phases |-> <<>>]
DocB == [protocolSection |-> "dict", nctId |-> N2, hasResults |-> "absent",
         overallStatus |-> "RECRUITING", phases |-> <<"PHASE2", "PHASE3">>]
DocNoId == [protocolSection |-> "dict", nctId |-> None, hasResults |-> "false",
            overallStatus |-> "UNKNOWN", phases |-> <<>>]
DocEmptyId == [protocolSection |-> "dict", nctId |-> <<>>, hasResults |-> "true",
               overallStatus |-> "COMPLETED", phases |-> <<"PHASE1">>]
DocMalformed == [protocolSection |-> "null", nctId |-> None, hasResults |-> "false",
                 overallStatus |-> "UNKNOWN", phases |-> <<>>]
DocRejected == [protocolSection |-> "dict", nctId |-> N3, hasResults |-> "maybe",
                overallStatus |-> "COMPLETED", phases |-> <<>>]

\* documents served by the registry in a run
StudyDocs == {DocA, DocB, DocNoId, DocEmptyId, DocMalformed, DocRejected}
\* documents passed to insert_trial when it is called directly
DirectDocs == {DocA, DocA2, DocB, DocRejected}

\* ---------------------------------------------------------------- the table
\* generated column has_results: (data->>'hasResults')::boolean
HasResultsCol(data) ==
    CASE data.hasResults = "true" -> "t"
      [] data.hasResults = "false" -> "f"
      [] OTHER -> "NULL"

\* generated column overall_status
OverallStatusCol(data) == data.overallStatus

\* generated column phase: the first element of phases as JSON text (quoted),
\* NULL when the list is empty
PhaseCol(data) ==
    IF Len(data.phases) > 0 THEN <<"\"", data.phases[1], "\"">> ELSE None

\* The statement raises on the server: the ::boolean cast of has_results fails
StatementFails(nct_id, data) == data.hasResults \notin {"true", "false", "absent"}

\* ON CONFLICT ... SET search_terms = CASE ... END
MergeKeepOld(old, new) == IF old = None THEN new ELSE old
MergeAlwaysAppend(old, new) == IF old = None THEN new ELSE old \o StrSep \o new
MergeReplace(old, new) == new
MergeSearchTerms(old, new) ==
    IF old = None THEN new
    ELSE IF Position(new, old) > 0 THEN old
    ELSE old \o StrSep \o new

HasRow(tbl, nct_id) == \E r \in tbl : r.nct_id = nct_id
RowOf(tbl, nct_id) == CHOOSE r \in tbl : r.nct_id = nct_id

UpsertReplaceRow(tbl, serial, now, nct_id, data, search_terms) ==
    {r \in tbl : r.nct_id # nct_id} \cup
    {[id |-> serial, nct_id |-> nct_id, data |-> data,
      has_results |-> HasResultsCol(data),
      overall_status |-> OverallStatusCol(data),
      phase |-> PhaseCol(data),
      search_terms |-> IF HasRow(tbl, nct_id)
                       THEN MergeSearchTerms(RowOf(tbl, nct_id).search_terms, search_terms)
                       ELSE search_terms,
      created_at |-> now, last_updated_at |-> now]}
\* INSERT ... ON CONFLICT (nct_id) DO UPDATE ..., at transaction time now,
\* with serial the value drawn from the id sequence
Upsert(tbl, serial, now, nct_id, data, search_terms) ==
    IF HasRow(tbl, nct_id)
    THEN LET r == RowOf(tbl, nct_id)
         IN (tbl \ {r}) \cup
            {[r EXCEPT !.data = data,
                       !.has_results = HasResultsCol(data),
                       !.overall_status = OverallStatusCol(data),
                       !.phase = PhaseCol(data),
                       !.search_terms = MergeSearchTerms(r.search_terms, search_terms),
                       !.last_updated_at = now]}
    ELSE tbl \cup
         {[id |-> serial, nct_id |-> nct_id, data |-> data,
           has_results |-> HasResultsCol(data),
           overall_status |-> OverallStatusCol(data),
           phase |-> PhaseCol(data),
           search_terms |-> search_terms,
           created_at |-> now, last_updated_at |-> now]}

\* ---------------------------------------------------------------- scrape_trials helpers
\* any([condition, intervention, other_terms])
NoValidation(c, i, o) == TRUE
AnyFilter(c, i, o) == Truthy(c) \/ Truthy(i) \/ Truthy(o)

\* search_terms_str
BuildSearchTerms(c, i, o, ro) ==
    Join((IF Truthy(c) THEN <<StrCondition \o c>> ELSE <<>>) \o
         (IF Truthy(i) THEN <<StrIntervention \o i>> ELSE <<>>) \o
         (IF Truthy(o) THEN <<StrOtherTerms \o o>> ELSE <<>>) \o
         (IF ro THEN <<StrHasResults>> ELSE <<>>))

\* the request parameters of search_studies; None marks an absent parameter
BuildParamsNoToken(c, i, o, page_token, ro) ==
    LET term0 == IF Truthy(o) THEN Quote(o) ELSE None
    IN [cond |-> IF Truthy(c) THEN Quote(c) ELSE None,
        intr |-> IF Truthy(i) THEN Quote(i) ELSE None,
        term |-> IF ro
                 THEN (IF term0 # None THEN term0 \o StrAndHasResults
                                       ELSE StrAreaHasResults)
                 ELSE term0,
        pageToken |-> None]
BuildParamsReplaceTerm(c, i, o, page_token, ro) ==
    [cond |-> IF Truthy(c) THEN Quote(c) ELSE None,
     intr |-> IF Truthy(i) THEN Quote(i) ELSE None,
     term |-> IF ro THEN StrAreaHasResults
              ELSE IF Truthy(o) THEN Quote(o) ELSE None,
     pageToken |-> IF Truthy(page_token) THEN page_token ELSE None]
BuildParams(c, i, o, page_token, ro) ==
    LET term0 == IF Truthy(o) THEN Quote(o) ELSE None
    IN [cond |-> IF Truthy(c) THEN Quote(c) ELSE None,
        intr |-> IF Truthy(i) THEN Quote(i) ELSE None,
        term |-> IF ro
                 THEN (IF term0 # None THEN term0 \o StrAndHasResults
                                       ELSE StrAreaHasResults)
                 ELSE term0,
        pageToken |-> IF Truthy(page_token) THEN page_token ELSE None]

\* stop=stop_after_attempt(3)
StopAfterAttempt == 3
StopAfterFour(n) == n >= 4
RetryStops(n) == n >= StopAfterAttempt

\* wait=wait_exponential(multiplier=1, min=4, max=10): the wait that follows
\* failed attempt number n is multiplier * 2^(n-1), raised to min and cut at max
WaitMultiplier == 1
WaitMin == 4
WaitMax == 10
Max(a, b) == IF a >= b THEN a ELSE b
WaitDoublingFromMin(n) ==
    IF WaitMin * 2^(n - 1) <= WaitMax THEN WaitMin * 2^(n - 1) ELSE WaitMax
WaitExponential(n) ==
    LET exp == WaitMultiplier * 2^(n - 1)
    IN Max(Max(0, WaitMin), IF exp <= WaitMax THEN exp ELSE WaitMax)

\* max_trials and total_stored >= max_trials
BoundStrictlyExceeded(mt, total) == TruthyInt(mt) /\ total > mt
ReachedBound(mt, total) == TruthyInt(mt) /\ total >= mt

\* not (not nct_id)
NctIdNotNone(nct_id) == nct_id # None
HasNctId(nct_id) == Truthy(nct_id)

\* total_stored += 1
NoIncrement(total) == total
Increment(total) == total + 1

\* not next_page_token
StopAfterFirstPage(token) == TRUE
NoMorePages(token) == ~Truthy(token)

\* ---------------------------------------------------------------- the registry
\* Page tokens are opaque strings; the registry's token for its n-th page is
\* the string of n characters "t".  A request without pageToken gets page 1.
Tok(n) == [k \in 1..n |-> "t"]
PageNo(page_token) == IF Truthy(page_token) THEN Len(page_token) ELSE 1

Min(a, b) == IF a <= b THEN a ELSE b
StudySeqs(maxLen) == UNION {[1..n -> StudyDocs] : n \in 0..maxLen}

\* The responses the registry may give to a request for page n when it has
\* already delivered sent studies for the query: a document without the
\* studies key, or one with a (possibly empty) studies list; either may
\* carry a nextPageToken while n < MaxPages.
ServerPages(n, sent) ==
    LET tokens == IF n < MaxPages THEN {None, Tok(n + 1)} ELSE {None}
    IN {[hasStudies |-> FALSE, studies |-> <<>>, nextPageToken |-> t] : t \in tokens}
       \cup {[hasStudies |-> TRUE, studies |-> s, nextPageToken |-> t] :
                s \in StudySeqs(Min(MaxPageLen, MaxStudies - sent)), t \in tokens}

NoResponse == [hasStudies |-> FALSE, studies |-> <<>>, nextPageToken |-> None]
NoParams == [cond |-> None, intr |-> None, term |-> None, pageToken |-> None]

\* The nct_ids of the studies of a page that the loop stores, in page order,
\* when the page is processed to its end starting with the connection in
\* state failed: a study whose extraction raises or that has no nctId is
\* passed over, and from the first statement the server rejects on, every
\* later statement of the run is rejected too (no rollback is issued).
RECURSIVE StoredIds(_, _)
StoredIds(studies, failed) ==
    IF studies = <<>> \/ failed THEN <<>>
    ELSE LET s == Head(studies)
         IN IF s.protocolSection = "null" \/ ~Truthy(s.nctId)
            THEN StoredIds(Tail(studies), failed)
            ELSE IF StatementFails(s.nctId, s) THEN <<>>
            ELSE <<s.nctId>> \o StoredIds(Tail(studies), FALSE)

\* ---------------------------------------------------------------- state
VARIABLES
    table,            \* rows of clinical_trials
    nextSerial,       \* next value of the id sequence
    clock,            \* the database server's clock
    dbFailed,         \* the connection's transaction is in the aborted state
    conn,             \* db.conn: "none", "open", "closed"
    schema,           \* create_tables has committed
    opens, closes,    \* psycopg2.connect successes / conn.close calls
    condition, intervention, other_terms, max_trials, results_only,
    pc,               \* position in scrape_trials
    error,            \* exception that left scrape_trials, "" if none
    exit,             \* how the page loop ended
    result,           \* value returned by scrape_trials, -1 before it returns
    search_terms_str, total_stored, next_page_token, response, idx,
    attempt,          \* attempts made by the current search_studies call
    lastError,        \* outcome of the latest attempt
    params,           \* parameters of the latest request
    served,           \* the page the registry sent in its latest successful reply
    waits,            \* the waits slept between the attempts of the current call
    delivered,        \* studies the registry has sent for the query so far
    calls,            \* search_studies calls made in the run
    inserts,          \* insert_trial calls made
    committed,        \* the insert_trial calls that committed, in order
    returned,         \* the ids those calls returned (RETURNING id), in order
    offered           \* StoredIds of the pages returned by search_studies so far

dbVars == <<table, nextSerial, clock, dbFailed>>
connVars == <<conn, schema, opens, closes>>
argVars == <<condition, intervention, other_terms, max_trials, results_only>>
ctlVars == <<pc, error, exit, result>>
loopVars == <<search_terms_str, total_stored, next_page_token, response, idx>>
clientVars == <<attempt, lastError, params, served, delivered, calls, waits>>
histVars == <<inserts, committed, returned, offered>>
vars == <<dbVars, connVars, argVars, ctlVars, loopVars, clientVars, histVars>>

\* (condition, intervention, other_terms, results_only) a run is started with
RunFilters ==
    {<<None, None, None, FALSE>>, <<<<>>, None, <<>>, TRUE>>,
     <<<<"a">>, None, None, FALSE>>, <<None, <<"b">>, <<"a", "b">>, TRUE>>}

InitCommon ==
    /\ table = {} /\ nextSerial = 1 /\ clock = 0 /\ dbFailed = FALSE
    /\ error = "" /\ exit = "" /\ result = -1
    /\ search_terms_str = <<>> /\ total_stored = 0 /\ next_page_token = None
    /\ response = NoResponse /\ idx = 0
    /\ attempt = 0 /\ lastError = "none" /\ params = NoParams /\ served = NoResponse
    /\ calls = 0 /\ delivered = 0 /\ waits = <<>>
    /\ inserts = 0 /\ committed = <<>> /\ returned = <<>> /\ offered = <<>>

\* a call scrape_trials(condition, intervention, other_terms, max_trials, results_only)
Init ==
    /\ InitCommon
    /\ conn = "none" /\ schema = FALSE /\ opens = 0 /\ closes = 0
    /\ \E f \in RunFilters :
          /\ condition = f[1] /\ intervention = f[2] /\ other_terms = f[3]
          /\ results_only = f[4]
    /\ max_trials \in 0..MaxTrialsArg
    /\ pc = "validate"

\* ---------------------------------------------------------------- scrape_trials
\* the finally clause, after a return from inside the try block
ReturnAndClose(how, value) ==
    /\ pc' = "done" /\ exit' = how /\ result' = value /\ error' = error
    /\ conn' = "closed" /\ closes' = closes + 1
    /\ UNCHANGED <<schema, opens>>

\* db.insert_trial(nct_id, data, search_terms): execute, commit.  When execute
\* raises nothing is committed and, no rollback being issued, the transaction
\* stays aborted: every later execute on the connection raises as well.
InsertCommits(nct_id, data) == ~dbFailed /\ ~StatementFails(nct_id, data)
InsertTrial(nct_id, data, st) ==
    /\ clock' = clock + 1 /\ inserts' = inserts + 1
    /\ IF InsertCommits(nct_id, data)
       THEN /\ table' = Upsert(table, nextSerial, clock + 1, nct_id, data, st)
            /\ nextSerial' = nextSerial + 1 /\ dbFailed' = dbFailed
            /\ committed' = Append(committed,
                  [nct_id |-> nct_id, data |-> data, search_terms |-> st])
            /\ returned' = Append(returned, RowOf(table', nct_id).id)
       ELSE /\ dbFailed' = TRUE
            /\ nextSerial' = IF dbFailed THEN nextSerial ELSE nextSerial + 1
            /\ UNCHANGED <<table, committed, returned>>

Validate ==
    /\ pc = "validate"
    /\ IF AnyFilter(condition, intervention, other_terms)
       THEN pc' = "connect" /\ error' = error
       ELSE pc' = "raised" /\ error' = "ValueError"
    /\ UNCHANGED <<exit, result, dbVars, connVars, argVars, loopVars, clientVars, histVars>>

\* ClinicalTrialsDB.__init__: psycopg2.connect
Connect ==
    /\ pc = "connect"
    /\ \E ok \in BOOLEAN :
          IF ok
          THEN conn' = "open" /\ opens' = opens + 1 /\ pc' = "create_tables" /\ error' = error
          ELSE conn' = conn /\ opens' = opens /\ pc' = "raised" /\ error' = "OperationalError"
    /\ UNCHANGED <<schema, closes, exit, result, dbVars, argVars, loopVars, clientVars, histVars>>

\* ClinicalTrialsDB.__init__: create_tables, then the set-up of the try block.
\* The constructor runs before the try statement: when create_tables raises,
\* the exception leaves scrape_trials and the finally clause is not entered.
CreateTables ==
    /\ pc = "create_tables"
    /\ \E ok \in BOOLEAN :
          IF ok
          THEN /\ schema' = TRUE /\ pc' = "fetch" /\ error' = error
               /\ total_stored' = 0 /\ next_page_token' = None
               /\ search_terms_str' =
                     BuildSearchTerms(condition, intervention, other_terms, results_only)
               /\ attempt' = 0
          ELSE /\ schema' = schema /\ pc' = "raised" /\ error' = "DatabaseError"
               /\ UNCHANGED <<total_stored, next_page_token, search_terms_str, attempt>>
    /\ UNCHANGED <<conn, opens, closes, exit, result, dbVars, argVars, response, idx,
                   lastError, params, served, delivered, calls, waits, histVars>>

\* one attempt of search_studies that returns response.json()
FetchOk ==
    /\ pc = "fetch"
    /\ attempt = 0 => calls < MaxPages   \* the chain of pages has MaxPages pages
    /\ \E page \in ServerPages(PageNo(next_page_token), delivered) :
          /\ response' = page /\ served' = page
          /\ delivered' = delivered + Len(page.studies)
          /\ offered' = offered \o StoredIds(page.studies, dbFailed)
    /\ attempt' = attempt + 1
    /\ calls' = IF attempt = 0 THEN calls + 1 ELSE calls
    /\ params' = BuildParams(condition, intervention, other_terms, next_page_token, results_only)
    /\ lastError' = "none"
    /\ pc' = "page"
    /\ UNCHANGED <<error, exit, result, dbVars, connVars, argVars, search_terms_str,
                   total_stored, next_page_token, idx, waits, inserts, committed, returned>>

\* one attempt of search_studies that raises: "transient" is a timeout or a
\* connection failure, "status" an error status raised by raise_for_status.
\* tenacity retries on every exception until stop_after_attempt(3) holds, then
\* raises RetryError, which the handler of the while loop turns into a break.
FetchFail ==
    /\ pc = "fetch"
    /\ attempt = 0 => calls < MaxPages   \* the chain of pages has MaxPages pages
    /\ \E kind \in {"transient", "status"} : lastError' = kind
    /\ attempt' = attempt + 1
    /\ calls' = IF attempt = 0 THEN calls + 1 ELSE calls
    /\ params' = BuildParams(condition, intervention, other_terms, next_page_token, results_only)
    /\ IF RetryStops(attempt + 1)
       THEN ReturnAndClose("aborted", total_stored) /\ waits' = waits
       ELSE /\ waits' = Append(waits, WaitExponential(attempt + 1))
            /\ UNCHANGED <<ctlVars, connVars>>
    /\ UNCHANGED <<dbVars, argVars, loopVars, served, delivered, histVars>>

\* if not response or 'studies' not in response / if not studies
InvalidResponse(resp) == ~resp.hasStudies
NoStudiesAndNoToken(resp) == resp.studies = <<>> /\ ~Truthy(resp.nextPageToken)
NoStudies(resp) == resp.studies = <<>>

\* search_studies has returned (the retry state of the call is dropped);
\* the two checks on the response before the for loop
CheckPageContinue ==
    /\ pc = "page"
    /\ attempt' = 0 /\ waits' = <<>>
    /\ IF InvalidResponse(response) \/ NoStudies(response)
       THEN /\ pc' = "fetch" /\ idx' = idx
            /\ UNCHANGED <<error, exit, result, connVars>>
       ELSE /\ pc' = "study" /\ idx' = 1
            /\ UNCHANGED <<error, exit, result, connVars>>
    /\ UNCHANGED <<dbVars, argVars, search_terms_str, total_stored, next_page_token,
                   response, lastError, params, served, delivered, calls, histVars>>
CheckPage ==
    /\ pc = "page"
    /\ attempt' = 0 /\ waits' = <<>>
    /\ IF InvalidResponse(response)
       THEN ReturnAndClose("invalid", total_stored) /\ idx' = idx
       ELSE IF NoStudies(response)
       THEN ReturnAndClose("empty", total_stored) /\ idx' = idx
       ELSE /\ pc' = "study" /\ idx' = 1
            /\ UNCHANGED <<error, exit, result, connVars>>
    /\ UNCHANGED <<dbVars, argVars, search_terms_str, total_stored, next_page_token,
                   response, lastError, params, served, delivered, calls, histVars>>

\* one iteration of the for loop
ProcessStudy ==
    /\ pc = "study" /\ idx <= Len(response.studies)
    /\ LET study == response.studies[idx]
       IN IF study.protocolSection = "null" \/ ~HasNctId(study.nctId)
          THEN \* AttributeError caught, or "Skipping study without NCT ID"
               /\ idx' = idx + 1
               /\ UNCHANGED <<dbVars, ctlVars, connVars, total_stored, inserts, committed,
                            returned>>
          ELSE /\ InsertTrial(study.nctId, study, search_terms_str)
               /\ IF ~InsertCommits(study.nctId, study)
                  THEN \* the exception is caught by the handler of the for body
                       /\ idx' = idx + 1
                       /\ UNCHANGED <<ctlVars, connVars, total_stored>>
                  ELSE /\ total_stored' = Increment(total_stored)
                       /\ IF ReachedBound(max_trials, Increment(total_stored))
                          THEN ReturnAndClose("bound", Increment(total_stored)) /\ idx' = idx
                          ELSE idx' = idx + 1 /\ UNCHANGED <<ctlVars, connVars>>
    /\ UNCHANGED <<argVars, search_terms_str, next_page_token, response, clientVars, offered>>

\* after the for loop: take the page's token, stop or fetch the next page
NextPage ==
    /\ pc = "study" /\ idx > Len(response.studies)
    /\ next_page_token' = response.nextPageToken
    /\ IF NoMorePages(response.nextPageToken)
       THEN ReturnAndClose("exhausted", total_stored) /\ attempt' = attempt
       ELSE pc' = "fetch" /\ attempt' = 0 /\ UNCHANGED <<error, exit, result, connVars>>
    /\ UNCHANGED <<dbVars, argVars, search_terms_str, total_stored, response, idx,
                   lastError, params, served, delivered, calls, waits, histVars>>

Next ==
    \/ Validate \/ Connect \/ CreateTables
    \/ FetchOk \/ FetchFail \/ CheckPage \/ ProcessStudy \/ NextPage

Spec == Init /\ [][Next]_vars

\* a call of scrape_trials on a table that earlier runs have filled: a run
\* with intervention "b" stored DocA2, then a run with condition "a" DocB
EarlierAnnotation == BuildSearchTerms(None, <<"b">>, None, FALSE)
EarlierTable ==
    Upsert(Upsert({}, 1, 1, N1, DocA2, EarlierAnnotation),
           2, 2, N2, DocB, BuildSearchTerms(<<"a">>, None, None, FALSE))
RerunFilters == {f \in RunFilters : AnyFilter(f[1], f[2], f[3])}
InitRerun ==
    /\ table = EarlierTable /\ nextSerial = 3 /\ clock = 2 /\ dbFailed = FALSE
    /\ conn = "none" /\ schema = TRUE /\ opens = 0 /\ closes = 0
    /\ \E f \in RerunFilters :
          /\ condition = f[1] /\ intervention = f[2] /\ other_terms = f[3]
          /\ results_only = f[4]
    /\ max_trials \in {0, MaxTrialsArg}
    /\ pc = "validate" /\ error = "" /\ exit = "" /\ result = -1
    /\ search_terms_str = <<>> /\ total_stored = 0 /\ next_page_token = None
    /\ response = NoResponse /\ idx = 0
    /\ attempt = 0 /\ lastError = "none" /\ params = NoParams /\ served = NoResponse
    /\ calls = 0 /\ delivered = 0 /\ waits = <<>>
    /\ inserts = 0 /\ committed = <<>> /\ returned = <<>> /\ offered = <<>>
SpecRerun == InitRerun /\ [][Next]_vars

\* scrape_trials runs in one thread that nothing suspends: while a statement
\* of it remains to be executed, one is executed
FairFilters == {<<None, None, None, FALSE>>, <<<<"a">>, None, None, FALSE>>}
InitFair ==
    /\ InitCommon
    /\ conn = "none" /\ schema = FALSE /\ opens = 0 /\ closes = 0
    /\ \E f \in FairFilters :
          /\ condition = f[1] /\ intervention = f[2] /\ other_terms = f[3]
          /\ results_only = f[4]
    /\ max_trials \in {0, 1}      \* without a bound, with one
    /\ pc = "validate"
SpecFair == InitFair /\ [][Next]_vars /\ WF_vars(Next)

\* ---------------------------------------------------------------- the repository alone
\* insert_trial called directly on a freshly constructed ClinicalTrialsDB, with
\* annotations as scrape_trials builds them
DirectFilters ==
    {<<<<"a">>, None, None, FALSE>>, <<<<"a", "b">>, None, None, FALSE>>,
     <<None, <<"b">>, None, FALSE>>, <<<<"a">>, <<"b">>, None, FALSE>>,
     <<<<"a">>, None, None, TRUE>>}
DirectAnnotations == {BuildSearchTerms(f[1], f[2], f[3], f[4]) : f \in DirectFilters}

InitDB ==
    /\ InitCommon
    /\ conn = "open" /\ schema = TRUE /\ opens = 1 /\ closes = 0
    /\ condition = None /\ intervention = None /\ other_terms = None
    /\ max_trials = 0 /\ results_only = FALSE
    /\ pc = "direct"

DirectInsert ==
    /\ pc = "direct" /\ inserts < MaxDirectCalls
    /\ \E doc \in DirectDocs, ann \in DirectAnnotations : InsertTrial(doc.nctId, doc, ann)
    /\ UNCHANGED <<connVars, argVars, ctlVars, loopVars, clientVars, offered>>

NextDB == DirectInsert

SpecDB == InitDB /\ [][NextDB]_vars

\* ---------------------------------------------------------------- properties
Ids(log) == [k \in 1..Len(log) |-> log[k].nct_id]

\* the distinct annotations of the committed calls on nct_id, in the order
\* in which each was first passed
RECURSIVE DistinctAnns(_, _)
DistinctAnns(log, nct_id) ==
    IF log = <<>> THEN <<>>
    ELSE LET front == SubSeq(log, 1, Len(log) - 1)
             last == log[Len(log)]
             before == DistinctAnns(front, nct_id)
         IN IF last.nct_id = nct_id /\ \A k \in 1..Len(before) : before[k] # last.search_terms
            THEN Append(before, last.search_terms)
            ELSE before

Terminal == pc \in {"done", "raised"}

IsPrefix(p, s) == Len(p) <= Len(s) /\ SubSeq(s, 1, Len(p)) = p

C1_BoundInv ==
    max_trials >= 1 =>
        /\ total_stored <= max_trials
        /\ Len(committed) <= max_trials
        /\ total_stored = max_trials =>
              pc = "done" /\ exit = "bound" /\ result = max_trials
        /\ (pc = "done" /\ Len(offered) > max_trials) =>
              /\ result = max_trials
              /\ Ids(committed) = SubSeq(offered, 1, max_trials)
\* C1: with max_trials = k >= 1 the counter never exceeds k; the step that
\* brings it to k ends the run, which returns k; once the counter is k no
\* request and no insert_trial call is made; and when the pages returned by
\* search_studies hold more than k studies that the loop stores, the run
\* commits exactly the first k of them, in page order.
C1_BoundEnforcement ==
    /\ []C1_BoundInv
    /\ [][(max_trials >= 1 /\ total_stored = max_trials) =>
            /\ attempt' = attempt /\ calls' = calls /\ params' = params
            /\ inserts' = inserts /\ table' = table]_vars
C1_Witness ==
    /\ pc = "done" /\ exit = "bound" /\ max_trials = 1
    /\ Len(offered) > max_trials /\ calls = 1 /\ served.nextPageToken # None

\* C2: a run without bound that ends because a page carries no token has
\* fetched every page of the chain: it ends on a page without token, returns
\* the number of studies of all pages that the loop did not pass over, and
\* has committed exactly those studies, once per occurrence, in page order.
C2_PaginationComplete ==
    (pc = "done" /\ ~TruthyInt(max_trials) /\ exit = "exhausted") =>
        /\ ~Truthy(response.nextPageToken)
        /\ result = Len(offered)
        /\ Ids(committed) = offered
C2_Witness ==
    /\ pc = "done" /\ max_trials = 0 /\ exit = "exhausted"
    /\ calls = 2 /\ result = 3 /\ committed[1].nct_id = committed[3].nct_id

C3_RetryInv ==
    /\ attempt <= 3
    /\ pc \in {"page", "study"} => (response = served /\ lastError = "none")
    /\ (attempt = 3 /\ lastError # "none") => (pc = "done" /\ exit = "aborted")
    /\ exit = "aborted" =>
          /\ pc = "done" /\ attempt = 3 /\ lastError # "none"
          /\ result = total_stored
\* C3: a search_studies call makes at most 3 attempts; a third attempt that
\* succeeds hands its page to the loop; a third attempt that fails ends the
\* run as aborted, returning the count so far, and no request follows.
C3_RetryBehaviour ==
    /\ []C3_RetryInv
    /\ [][exit = "aborted" => (attempt' = attempt /\ calls' = calls)]_vars
C3_Witness ==
    pc = "page" /\ attempt = 3 /\ calls = 2 /\ Len(response.studies) > 0

\* C4: an attempt that fails with a non-retryable response status ends the
\* search_studies call at once: it was the call's first attempt and the call
\* is not waiting to retry.
C4_StatusSurfacesImmediately ==
    lastError = "status" => (attempt = 1 /\ pc # "fetch")

\* C5: search_terms of every record is the "; "-joined list of the distinct
\* annotations passed for its nct_id, each exactly once, in the order in
\* which they were first passed.
C5_MergeLaw ==
    \A r \in table : r.search_terms = Join(DistinctAnns(committed, r.nct_id))

\* C6: an insert_trial call with the same arguments as the call before it
\* adds no record and leaves the record's payload, derived fields and
\* search_terms as they were, while last_updated_at strictly increases.
C6_Idempotence ==
    [][(/\ Len(committed) >= 1
        /\ Len(committed') = Len(committed) + 1
        /\ committed'[Len(committed')] = committed[Len(committed)]) =>
            LET id == committed[Len(committed)].nct_id
                r == RowOf(table, id)
                r2 == RowOf(table', id)
            IN /\ Cardinality(table') = Cardinality(table)
               /\ table' \ {r2} = table \ {r}
               /\ r2.data = r.data
               /\ r2.has_results = r.has_results
               /\ r2.overall_status = r.overall_status
               /\ r2.phase = r.phase
               /\ r2.search_terms = r.search_terms
               /\ r2.last_updated_at > r.last_updated_at]_vars
C6_Witness ==
    /\ Len(committed) >= 2
    /\ committed[Len(committed)] = committed[Len(committed) - 1]

\* C7: every insert_trial call keeps each record, leaves the search_terms it
\* held as a prefix of the search_terms it holds afterwards, and does not
\* move last_updated_at backward.
C7_NoAnnotationLoss ==
    [][\A r \in table : \E r2 \in table' :
          /\ r2.nct_id = r.nct_id
          /\ r.search_terms # None => IsPrefix(r.search_terms, r2.search_terms)
          /\ r2.last_updated_at >= r.last_updated_at]_vars
C7_Witness ==
    \E r \in table :
        /\ r.last_updated_at > r.created_at
        /\ Len(DistinctAnns(committed, r.nct_id)) >= 2
        /\ Len(r.search_terms) > Len(DistinctAnns(committed, r.nct_id)[1])

\* C8: a call in which condition, intervention and other_terms are all None
\* or empty ends with ValueError, with no connection opened, no schema
\* created, no request sent, no insert_trial call made, the table untouched.
C8_Validation ==
    (/\ ~Truthy(condition) /\ ~Truthy(intervention) /\ ~Truthy(other_terms)
     /\ pc # "validate") =>
        /\ pc = "raised" /\ error = "ValueError"
        /\ conn = "none" /\ opens = 0 /\ closes = 0 /\ ~schema
        /\ attempt = 0 /\ calls = 0 /\ params = NoParams /\ inserts = 0
        /\ table = {} /\ nextSerial = 1
C8_Witness ==
    pc = "raised" /\ error = "ValueError" /\ condition = <<>> /\ other_terms = <<>>

\* C9: a run that has acquired the connection and has exited, normally or by
\* an exception, has released it exactly once.
C9_ConnectionReleased ==
    /\ closes <= opens
    /\ (Terminal /\ opens = 1) => (closes = 1 /\ conn = "closed")

\* C10: at every stage total_stored is the number of insert_trial calls that
\* committed in the run, a returning run returns that number, and every
\* committed record is in the table; a second commit on the same nct_id
\* counts again.
C10_ReportedCount ==
    /\ total_stored = Len(committed)
    /\ pc = "done" => result = Len(committed)
    /\ \A k \in 1..Len(committed) : HasRow(table, committed[k].nct_id)
    /\ \A r \in table : \E k \in 1..Len(committed) : committed[k].nct_id = r.nct_id
C10_Witness ==
    /\ pc = "done" /\ exit = "aborted" /\ result = 2
    /\ committed[1].nct_id = committed[2].nct_id /\ Cardinality(table) = 1

\* a study the loop cannot store / a study the loop and the table accept
StudyFails(study) ==
    \/ study.protocolSection = "null"
    \/ (study.nctId \notin {None, <<>>} /\ StatementFails(study.nctId, study))
StudyValid(study) ==
    /\ study.protocolSection = "dict" /\ study.nctId \notin {None, <<>>}
    /\ ~StatementFails(study.nctId, study)

\* C11: an iteration on a study whose extraction or insert_trial call raises
\* leaves the counter alone and moves on to the next study of the page, the
\* run going on; and an iteration on a valid study stores and counts it,
\* whatever failed before it in the run.
C11_FaultIsolation ==
    [][(pc = "study" /\ idx <= Len(response.studies)) =>
          LET study == response.studies[idx]
          IN /\ StudyFails(study) =>
                  /\ total_stored' = total_stored /\ committed' = committed
                  /\ pc' = "study" /\ idx' = idx + 1 /\ response' = response
             /\ StudyValid(study) =>
                  /\ total_stored' = total_stored + 1
                  /\ Len(committed') = Len(committed) + 1
                  /\ HasRow(table', study.nctId)]_vars

\* C12: once an insert_trial call has raised, the run has ended: no further
\* study is processed and no further page is fetched.
C12_StorageFailureAborts ==
    dbFailed => Terminal

\* C13: an iteration on a study whose nctId is absent or empty makes no
\* insert_trial call, leaves the counter and the table alone, and moves on
\* to the next study of the same page.
C13_MissingIdTolerance ==
    [][(/\ pc = "study" /\ idx <= Len(response.studies)
        /\ response.studies[idx].protocolSection = "dict"
        /\ response.studies[idx].nctId \in {None, <<>>}) =>
            /\ inserts' = inserts /\ committed' = committed /\ table' = table
            /\ total_stored' = total_stored
            /\ pc' = "study" /\ idx' = idx + 1 /\ response' = response]_vars
C13_Witness ==
    /\ Len(response.studies) = 2 /\ response.studies[1].nctId = <<>>
    /\ Len(committed) = 1 /\ committed[1].data = response.studies[2]
    /\ inserts = 1 /\ total_stored = 1

\* ---------------------------------------------------------------- the request alone
\* search_studies building its parameters, for every combination of absent,
\* empty and supplied filters, results_only and page_token
ReqTerms == {None, <<>>, <<"a">>, <<"a", "b">>}
ReqTokens == {None, <<>>, Tok(2)}

InitReq ==
    /\ table = {} /\ nextSerial = 1 /\ clock = 0 /\ dbFailed = FALSE
    /\ conn = "none" /\ schema = FALSE /\ opens = 0 /\ closes = 0
    /\ condition \in ReqTerms /\ intervention \in {None, <<"b">>}
    /\ other_terms \in ReqTerms /\ results_only \in BOOLEAN
    /\ max_trials = 0
    /\ pc = "request" /\ error = "" /\ exit = "" /\ result = -1
    /\ search_terms_str = <<>> /\ total_stored = 0 /\ next_page_token \in ReqTokens
    /\ response = NoResponse /\ idx = 0
    /\ attempt = 0 /\ lastError = "none" /\ params = NoParams /\ served = NoResponse
    /\ calls = 0 /\ delivered = 0 /\ waits = <<>>
    /\ inserts = 0 /\ committed = <<>> /\ returned = <<>> /\ offered = <<>>

BuildRequest ==
    /\ pc = "request"
    /\ params' = BuildParams(condition, intervention, other_terms, next_page_token,
                             results_only)
    /\ pc' = "requested"
    /\ UNCHANGED <<dbVars, connVars, argVars, error, exit, result, loopVars,
                   attempt, lastError, served, delivered, calls, waits, histVars>>

NextReq == BuildRequest

SpecReq == InitReq /\ [][NextReq]_vars

\* p is x between two double quotes
IsQuoted(p, x) ==
    /\ p # None /\ Len(p) = Len(x) + 2
    /\ p[1] = "\"" /\ p[Len(p)] = "\"" /\ SubSeq(p, 2, Len(p) - 1) = x
Supplied(x) == x \notin {None, <<>>}

\* C14: in the request, each supplied term is in its own parameter between
\* double quotes and an unsupplied term has no parameter; with results_only
\* query.term is the quoted other_terms followed by the AND-joined
\* has-results clause, or the clause alone when other_terms is not supplied;
\* pageToken is there exactly when a token is passed.
C14_RequestConstruction ==
    pc = "requested" =>
        /\ IF Supplied(condition) THEN IsQuoted(params.cond, condition)
                                  ELSE params.cond = None
        /\ IF Supplied(intervention) THEN IsQuoted(params.intr, intervention)
                                     ELSE params.intr = None
        /\ IF ~results_only
           THEN IF Supplied(other_terms) THEN IsQuoted(params.term, other_terms)
                                         ELSE params.term = None
           ELSE IF Supplied(other_terms)
           THEN /\ Len(params.term) = Len(other_terms) + 2 + Len(StrAndHasResults)
                /\ IsQuoted(SubSeq(params.term, 1, Len(other_terms) + 2), other_terms)
                /\ SubSeq(params.term, Len(other_terms) + 3, Len(params.term))
                      = StrAndHasResults
           ELSE params.term = StrAreaHasResults
        /\ IF Supplied(next_page_token) THEN params.pageToken = next_page_token
                                        ELSE params.pageToken = None
C14_Witness ==
    /\ pc = "requested" /\ results_only /\ other_terms = <<"a", "b">>
    /\ condition = <<"a">> /\ intervention = None
    /\ params.pageToken = Tok(2) /\ Len(params.term) = 30

\* C15 as stated: the wait before the first retry is 4, and each following
\* wait is double the one before it, capped at 10: 4 and then 8.
C15_BackoffDoubles ==
    /\ Len(waits) >= 1 => waits[1] = 4
    /\ \A k \in 2..Len(waits) :
          waits[k] = (IF 2 * waits[k - 1] <= 10 THEN 2 * waits[k - 1] ELSE 10)

\* C15 as amended: one wait is slept after each failed attempt that is
\* retried, and within the 3-attempt limit both waits are 4 time units.
C15_BackoffBothFour ==
    /\ Len(waits) <= 2
    /\ \A k \in 1..Len(waits) : waits[k] = 4
    /\ pc = "fetch" => Len(waits) = attempt
    /\ pc = "page" => Len(waits) = attempt - 1
    /\ exit = "aborted" => Len(waits) = 2
C15_Witness ==
    pc = "page" /\ attempt = 3 /\ Len(waits) = 2 /\ waits[2] = 4

\* C16: scrape_trials is sequential.  A step is an attempt of a fetch or an
\* upsert, never both; the first fetch carries no page token; a study is
\* upserted only when the fetch of its page has returned, retries included,
\* and it is the study at the loop's position in that page, positions being
\* visited in page order; the fetch of the next page starts only when the
\* loop has passed the last study of the page and every attempt of it
\* carries exactly the nextPageToken of that page.
C16_SequentialOrdering ==
    [][/\ ~(attempt' = attempt + 1 /\ inserts' # inserts)
       /\ attempt' = attempt + 1 =>
             /\ pc = "fetch"
             /\ calls' = 1 => params'.pageToken = None
             /\ calls' > 1 =>
                   /\ idx > Len(response.studies)
                   /\ Truthy(response.nextPageToken)
                   /\ params'.pageToken = response.nextPageToken
       /\ inserts' # inserts =>
             /\ pc = "study" /\ attempt = 0 /\ waits = <<>>
             /\ response = served /\ response' = response
             /\ idx <= Len(response.studies) /\ idx' \in {idx, idx + 1}
       /\ committed' # committed =>
             /\ Len(committed') = Len(committed) + 1
             /\ committed'[Len(committed')].data = response.studies[idx]
             /\ committed'[Len(committed')].nct_id = response.studies[idx].nctId
       /\ idx' # idx =>
             \/ pc = "page" /\ idx' = 1
             \/ pc = "study" /\ idx' = idx + 1 /\ response' = response]_vars
C16_Witness ==
    /\ calls = 2 /\ params.pageToken = Tok(2) /\ pc = "study" /\ idx = 2
    /\ Len(committed) = 3
    /\ committed[3].data = response.studies[1]

\* C17: a fetched response without the studies key, or with an empty studies
\* collection, ends the run normally with the count accumulated so far, with
\* no upsert and no further fetch, whether or not it carries a nextPageToken.
C17_EndOfResults ==
    [][(pc = "page" /\ (~response.hasStudies \/ Len(response.studies) = 0)) =>
          /\ pc' = "done" /\ error' = "" /\ result' = total_stored
          /\ exit' = (IF response.hasStudies THEN "empty" ELSE "invalid")
          /\ total_stored' = total_stored /\ conn' = "closed"
          /\ UNCHANGED <<inserts, committed, table, calls, params>>]_vars
C17_Witness ==
    /\ pc = "done" /\ exit = "empty" /\ Truthy(served.nextPageToken)
    /\ served.hasStudies /\ served.studies = <<>>
    /\ calls = 1 /\ inserts = 0 /\ result = total_stored

\* C18: the pages of the server forming a finite chain, every run ends, and
\* a run that has entered the loop returns its count, with a max_trials bound
\* or without one; the loop ends only on the bound, on the exhaustion of the
\* pages, on an end-of-results response or on a fetch failure.
C18_Termination ==
    /\ <>Terminal
    /\ [][(pc \in {"fetch", "page", "study"}) =>
             (pc' \in {"fetch", "page", "study"} \/
              (pc' = "done" /\ result' = total_stored'))]_vars
    /\ [](pc = "done" =>
            \/ /\ exit = "bound"
               /\ TruthyInt(max_trials) /\ total_stored >= max_trials
            \/ /\ exit = "exhausted"
               /\ ~Truthy(next_page_token) /\ idx > Len(response.studies)
            \/ /\ exit \in {"invalid", "empty"}
               /\ (~response.hasStudies \/ response.studies = <<>>)
            \/ /\ exit = "aborted"
               /\ lastError # "none" /\ attempt = StopAfterAttempt)
C18_Witness ==
    /\ pc = "done" /\ exit = "exhausted" /\ max_trials = 0
    /\ calls = MaxPages /\ total_stored = MaxStudies /\ result = MaxStudies

\* C19: after any sequence of insert_trial calls the table holds exactly one
\* row for each nct_id of a committed call, and row ids are unique; two
\* committed calls return the same id exactly when they have the same nct_id.
\* A committed call on an nct_id that has a row returns that row's id, leaves
\* its created_at as it was and replaces its data; a committed call on a new
\* nct_id adds one row; in both cases every row of another nct_id is left
\* as it was, and a call that does not commit changes no row.
C19_KeyUniquenessAndFrame ==
    /\ [](/\ \A r1, r2 \in table : (r1.nct_id = r2.nct_id \/ r1.id = r2.id) => r1 = r2
          /\ {r.nct_id : r \in table} = {committed[k].nct_id : k \in 1..Len(committed)}
          /\ Len(returned) = Len(committed)
          /\ \A j, k \in 1..Len(committed) :
                /\ (committed[j].nct_id = committed[k].nct_id) <=> (returned[j] = returned[k])
                /\ RowOf(table, committed[k].nct_id).id = returned[k])
    /\ [][/\ committed' = committed => table' = table
          /\ committed' # committed =>
                LET call == committed'[Len(committed')]
                    new == RowOf(table', call.nct_id)
                IN /\ {r \in table : r.nct_id # call.nct_id}
                         = {r \in table' : r.nct_id # call.nct_id}
                   /\ new.data = call.data
                   /\ new.id = returned'[Len(returned')]
                   /\ new.last_updated_at = clock'
                   /\ IF HasRow(table, call.nct_id)
                      THEN /\ new.id = RowOf(table, call.nct_id).id
                           /\ new.created_at = RowOf(table, call.nct_id).created_at
                           /\ new.created_at < clock'
                           /\ Cardinality(table') = Cardinality(table)
                      ELSE /\ new.created_at = clock'
                           /\ Cardinality(table') = Cardinality(table) + 1]_vars
C19_Witness ==
    /\ Len(committed) = 3 /\ Cardinality(table) = 2
    /\ committed[1].data = DocA /\ committed[2].data = DocB /\ committed[3].data = DocA2
    /\ returned[3] = returned[1] /\ returned[2] # returned[1]
    /\ RowOf(table, N1).data = DocA2 /\ RowOf(table, N1).created_at = 1
    /\ RowOf(table, N2).data = DocB

\* C20: the annotation of a run is built once, from the filters that are
\* present and the results_only flag, and every insert_trial call of the run
\* is given that string; right after a call that commits, the search_terms
\* of the record contain the annotation as a substring, and so do, at every
\* moment, the search_terms of every record the run has stored.
C20_AnnotationCoverage ==
    /\ [][(pc \in {"fetch", "page", "study", "done"}) =>
             /\ search_terms_str' = search_terms_str
             /\ search_terms_str =
                   BuildSearchTerms(condition, intervention, other_terms, results_only)]_vars
    /\ [][committed' # committed =>
             LET call == committed'[Len(committed')]
             IN /\ call.search_terms = search_terms_str
                /\ Position(call.search_terms,
                            RowOf(table', call.nct_id).search_terms) > 0]_vars
    /\ [](\A k \in 1..Len(committed) :
             /\ committed[k].search_terms =
                   BuildSearchTerms(condition, intervention, other_terms, results_only)
             /\ Position(committed[k].search_terms,
                         RowOf(table, committed[k].nct_id).search_terms) > 0)
C20_Witness ==
    /\ pc = "done" /\ total_stored = 2 /\ Len(committed) = 2
    /\ committed[1].nct_id = N2 /\ committed[2].nct_id = N1
    /\ search_terms_str # EarlierAnnotation
    /\ RowOf(table, N1).search_terms = EarlierAnnotation \o StrSep \o search_terms_str
    /\ RowOf(table, N2).search_terms = search_terms_str

====
